---- MODULE Spec2Model ----
(***************************************************************************)
(* Measurement-update stage of the Kalman, Extended Kalman and Unscented   *)
(* Kalman updaters of stonesoup/updater/kalman.py.                         *)
(*                                                                         *)
(* Every call (update, predict_measurement, measurement_matrix) is a       *)
(* frame that runs statement by statement; several frames may run on the   *)
(* same updater object.  numpy arithmetic is modelled exactly, over the    *)
(* rationals: a number is a pair <<n, d>> in lowest terms with d > 0, a    *)
(* matrix is a sequence of rows, a state vector is an n x 1 matrix.  All   *)
(* inputs are small integers, on which float64 arithmetic is exact up to   *)
(* the division in the gain.                                               *)
(***************************************************************************)
EXTENDS Integers, Sequences, FiniteSets, TLC

VARIABLES
    updater,    \* the updater object: variant and its Property fields
    pc,         \* per frame: the statement the call is at
    call,       \* per frame: the operation called and the caller's arguments
    loc,        \* per frame: the local variables of update / predict_measurement
    ret,        \* per frame: the outcome (value returned or exception raised)
    log,        \* per frame: model calls and matrix operations performed so far
    nfailed,    \* number of calls on this updater that ended in an exception
    ndim_state  \* dimension of the state space the updater is used on

vars == <<updater, pc, call, loc, ret, log, nfailed, ndim_state>>

----------------------------------------------------------------------------
(* Bounds of the model *)
NumThreads == 2     \* frames that may run concurrently in SpecConc
MaxFailed == 1      \* failed calls counted (the counter saturates here)
MaxMeas == 2        \* measurements z are drawn from 0..MaxMeas

----------------------------------------------------------------------------
(* Exact rational arithmetic *)
Abs(x) == IF x < 0 THEN -x ELSE x

RECURSIVE GCD(_, _)
GCD(a, b) == IF b = 0 THEN a ELSE GCD(b, a % b)

Rat(n, d) ==
    LET s == IF d < 0 THEN -1 ELSE 1
        g == GCD(Abs(n), Abs(d))
    IN  <<(s * n) \div g, (s * d) \div g>>

Zero == <<0, 1>>
RAdd(a, b) == Rat(a[1] * b[2] + b[1] * a[2], a[2] * b[2])
RNeg(a) == <<-a[1], a[2]>>
RSub(a, b) == RAdd(a, RNeg(b))
RMul(a, b) == Rat(a[1] * b[1], a[2] * b[2])
RInv(a) == Rat(a[2], a[1])
RLeq(a, b) == a[1] * b[2] <= b[1] * a[2]

\* the rational square root of a, or <<>> when a has none
RSqrt(a) ==
    LET ns == {k \in 0..Abs(a[1]) : k * k = a[1]}
        ds == {k \in 1..a[2] : k * k = a[2]}
    IN  IF ns = {} \/ ds = {} THEN <<>>
        ELSE <<CHOOSE k \in ns : TRUE, CHOOSE k \in ds : TRUE>>

----------------------------------------------------------------------------
(* numpy matrices *)
Rows(A) == Len(A)
Cols(A) == Len(A[1])
IntMat(A) == [i \in DOMAIN A |-> [j \in DOMAIN A[i] |-> <<A[i][j], 1>>]]
ZeroMat(r, c) == [i \in 1..r |-> [j \in 1..c |-> Zero]]

RECURSIVE DotTo(_, _, _, _, _)
DotTo(A, B, i, j, k) ==
    IF k = 0 THEN Zero
    ELSE RAdd(DotTo(A, B, i, j, k - 1), RMul(A[i][k], B[k][j]))

\* A @ B
MatMul(A, B) == [i \in 1..Rows(A) |-> [j \in 1..Cols(B) |-> DotTo(A, B, i, j, Cols(A))]]
\* A.T
Transpose(A) == [j \in 1..Cols(A) |-> [i \in 1..Rows(A) |-> A[i][j]]]
\* A + B, A - B, s * A
MatAdd(A, B) == [i \in 1..Rows(A) |-> [j \in 1..Cols(A) |-> RAdd(A[i][j], B[i][j])]]
MatSub(A, B) == [i \in 1..Rows(A) |-> [j \in 1..Cols(A) |-> RSub(A[i][j], B[i][j])]]
Scale(s, A) == [i \in 1..Rows(A) |-> [j \in 1..Cols(A) |-> RMul(s, A[i][j])]]

RECURSIVE TraceTo(_, _)
TraceTo(A, k) == IF k = 0 THEN Zero ELSE RAdd(TraceTo(A, k - 1), A[k][k])
Trace(A) == TraceTo(A, Rows(A))

\* determinant of a 1 x 1 or 2 x 2 matrix
Det(A) ==
    IF Rows(A) = 1 THEN A[1][1]
    ELSE RSub(RMul(A[1][1], A[2][2]), RMul(A[1][2], A[2][1]))

\* np.linalg.inv raises LinAlgError("Singular matrix") on a singular matrix
IsSingular(A) == Det(A) = Zero

Inverse(A) ==
    IF Rows(A) = 1 THEN <<<<RInv(A[1][1])>>>>
    ELSE Scale(RInv(Det(A)),
               << <<A[2][2], RNeg(A[1][2])>>, <<RNeg(A[2][1]), A[1][1]>> >>)

----------------------------------------------------------------------------
(* Measurement models (stonesoup.models): function, covar, matrix, jacobian *)
NoModel == [kind |-> "None", H |-> <<>>, R |-> <<>>]
LinearGaussian(H, R) == [kind |-> "linear", H |-> IntMat(H), R |-> IntMat(R)]
\* a differentiable model without matrix(): h(x) = x[1] * x[n]
NonLinear(R) == [kind |-> "nonlinear", H |-> <<>>, R |-> IntMat(R)]

\* hasattr(measurement_model, 'matrix')
HasMatrix(m) == m.kind = "linear"
Matrix(m) == m.H
Covar(m) == m.R
\* measurement_model.function(state_vector, noise=[0])
Function(m, x) ==
    IF m.kind = "linear" THEN MatMul(m.H, x)
    ELSE <<<<RMul(x[1][1], x[Rows(x)][1])>>>>
\* measurement_model.jacobian(state_vector)
Jacobian(m, x) ==
    IF m.kind = "linear" THEN m.H
    ELSE LET n == Rows(x)
         IN  <<[j \in 1..n |->
                  RAdd(IF j = 1 THEN x[n][1] ELSE Zero,
                       IF j = n THEN x[1][1] ELSE Zero)]>>

----------------------------------------------------------------------------
(* Inputs: state dimension 1 or 2, measurement dimension 1 *)
Dims == {1, 2}

LinearModels(n) ==
    IF n = 1
    THEN {LinearGaussian(<<<<1>>>>, <<<<1>>>>), LinearGaussian(<<<<2>>>>, <<<<1>>>>),
          LinearGaussian(<<<<1>>>>, <<<<0>>>>)}
    ELSE {LinearGaussian(<<<<1, 0>>>>, <<<<1>>>>), LinearGaussian(<<<<0, 1>>>>, <<<<0>>>>),
          LinearGaussian(<<<<1, 1>>>>, <<<<1>>>>)}
Models(n) == LinearModels(n) \cup {NonLinear(<<<<1>>>>)}

Means(n) ==
    IF n = 1 THEN {IntMat(<<<<0>>>>), IntMat(<<<<1>>>>)}
    ELSE {IntMat(<<<<0>>, <<0>>>>), IntMat(<<<<1>>, <<2>>>>)}
\* symmetric positive semi-definite covariances, one of them singular
Covariances(n) ==
    IF n = 1 THEN {IntMat(<<<<0>>>>), IntMat(<<<<1>>>>), IntMat(<<<<4>>>>)}
    ELSE {IntMat(<<<<2, 0>>, <<0, 2>>>>), IntMat(<<<<2, 2>>, <<2, 4>>>>),
          IntMat(<<<<2, 0>>, <<0, 0>>>>)}

PredictionTime == <<1, 1>>
MeasurementTime == <<2, 1>>

\* GaussianStatePrediction
States(n) ==
    {[state_vector |-> x, covar |-> P, timestamp |-> PredictionTime] :
        x \in Means(n), P \in Covariances(n)}
\* Detection, with or without its own measurement model
Measurements(n) ==
    {[state_vector |-> IntMat(<<<<z>>>>), timestamp |-> MeasurementTime,
      measurement_model |-> m] : z \in 0..MaxMeas, m \in Models(n) \cup {NoModel}}
\* SingleMeasurementHypothesis
Hypotheses(n) ==
    {[prediction |-> s, measurement |-> d] : s \in States(n), d \in Measurements(n)}

NoState == [state_vector |-> <<>>, covar |-> <<>>, timestamp |-> <<>>]
NoMeasurement == [state_vector |-> <<>>, timestamp |-> <<>>, measurement_model |-> NoModel]
NoHypothesis == [prediction |-> NoState, measurement |-> NoMeasurement]

Variants == {"KalmanUpdater", "ExtendedKalmanUpdater", "UnscentedKalmanUpdater"}

\* Property defaults of UnscentedKalmanUpdater
DefaultAlpha == <<1, 2>>
DefaultBeta == <<2, 1>>
DefaultKappa == <<0, 1>>

\* the updaters that can be constructed for state dimension n; KalmanUpdater
\* declares its measurement_model a LinearGaussian
DefaultModels(v, n) ==
    IF v = "KalmanUpdater" THEN LinearModels(n) \cup {NoModel}
    ELSE Models(n) \cup {NoModel}
Updaters(n) ==
    UNION {{[variant |-> v, measurement_model |-> m,
             alpha |-> DefaultAlpha, beta |-> DefaultBeta, kappa |-> DefaultKappa] :
               m \in DefaultModels(v, n)} : v \in Variants}

----------------------------------------------------------------------------
(* Outcomes of a call or of a statement: a value, or the exception raised *)
Ok(v, l) == [outcome |-> "ok", value |-> v, log |-> l]
Raise(e, l) == [outcome |-> e, value |-> <<>>, log |-> l]
Entry(op, x) == [op |-> op, at |-> x]

\* "if measurement_model is None: measurement_model = self.measurement_model"
ResolveModel(measurement_model, default) ==
    IF measurement_model = NoModel THEN default ELSE measurement_model

\* KalmanUpdater.measurement_matrix (also inherited by UnscentedKalmanUpdater)
KalmanMeasurementMatrix(self, predicted_state, measurement_model) ==
    IF ~HasMatrix(self.measurement_model)
    THEN Raise("AttributeError", <<>>)
    ELSE Ok(Matrix(self.measurement_model), <<Entry("matrix", <<>>)>>)

\* ExtendedKalmanUpdater.measurement_matrix without the hasattr test: the
\* Jacobian is evaluated for every model
ExtendedMeasurementMatrixJacobian(self, predicted_state, measurement_model) ==
    LET m == ResolveModel(measurement_model, self.measurement_model)
    IN  IF m = NoModel THEN Raise("AttributeError", <<>>)
        ELSE Ok(Jacobian(m, predicted_state.state_vector),
                <<Entry("jacobian", predicted_state.state_vector)>>)

\* ExtendedKalmanUpdater.measurement_matrix
ExtendedMeasurementMatrix(self, predicted_state, measurement_model) ==
    LET m == ResolveModel(measurement_model, self.measurement_model)
    IN  IF HasMatrix(m) THEN Ok(Matrix(m), <<Entry("matrix", <<>>)>>)
        ELSE IF m = NoModel THEN Raise("AttributeError", <<>>)
        ELSE Ok(Jacobian(m, predicted_state.state_vector),
                <<Entry("jacobian", predicted_state.state_vector)>>)

\* self.measurement_matrix(...), dispatched on the class of self
measurement_matrix(self, predicted_state, measurement_model) ==
    IF self.variant = "ExtendedKalmanUpdater"
    THEN ExtendedMeasurementMatrix(self, predicted_state, measurement_model)
    ELSE KalmanMeasurementMatrix(self, predicted_state, measurement_model)

\* line 62: hh @ predicted_state.covar @ hh.T + measurement_model.covar()
InnovationCovariance(hh, P, R) == MatAdd(MatMul(MatMul(hh, P), Transpose(hh)), R)
\* line 63: predicted_state.covar @ hh.T
CrossCovariance(hh, P) == MatMul(P, Transpose(hh))

GaussianMeasurementPrediction(mean, covar, timestamp, cross_covar) ==
    [state_vector |-> mean, covar |-> covar, timestamp |-> timestamp,
     cross_covar |-> cross_covar]
NoPrediction == GaussianMeasurementPrediction(<<>>, <<>>, <<>>, <<>>)

\* line 92: m_cross_cov @ np.linalg.inv(innov_cov)
KalmanGain(m_cross_cov, innov_cov) == MatMul(m_cross_cov, Inverse(innov_cov))
\* line 93 with the innovation's sign reversed
PosteriorMeanFlipped(x, kalman_gain, z, pred_meas) ==
    MatAdd(x, MatMul(kalman_gain, MatSub(pred_meas, z)))
\* line 93
PosteriorMean(x, kalman_gain, z, pred_meas) ==
    MatAdd(x, MatMul(kalman_gain, MatSub(z, pred_meas)))
\* line 94 with the correction added instead of subtracted
PosteriorCovarianceAdded(P, kalman_gain, innov_cov) ==
    MatAdd(P, MatMul(MatMul(kalman_gain, innov_cov), Transpose(kalman_gain)))
\* line 94
PosteriorCovariance(P, kalman_gain, innov_cov) ==
    MatSub(P, MatMul(MatMul(kalman_gain, innov_cov), Transpose(kalman_gain)))

GaussianStateUpdate(mean, covar, hypothesis, timestamp) ==
    [state_vector |-> mean, covar |-> covar, hypothesis |-> hypothesis,
     timestamp |-> timestamp]

----------------------------------------------------------------------------
(* Sigma points and the unscented transform (stonesoup.functions) *)
RECURSIVE SumSeq(_, _)
SumSeq(ms, k) == IF k = 1 THEN ms[1] ELSE MatAdd(SumSeq(ms, k - 1), ms[k])

Column(A, j) == [i \in 1..Rows(A) |-> <<A[i][j]>>]

\* lower-triangular L with L @ L.T = A, or <<>> when A is not positive definite
Cholesky(A) ==
    IF A[1][1][1] <= 0 THEN <<>>
    ELSE LET l11 == RSqrt(A[1][1])
         IN  IF Rows(A) = 1 THEN <<<<l11>>>>
             ELSE LET l21 == RMul(A[2][1], RInv(l11))
                      d == RSub(A[2][2], RMul(l21, l21))
                  IN  IF d[1] <= 0 THEN <<>>
                      ELSE << <<l11, Zero>>, <<l21, RSqrt(d)>> >>

\* gauss2sigma(mean, covar, alpha, beta, kappa): 2n+1 points and their weights;
\* np.linalg.cholesky raises LinAlgError unless covar is positive definite
gauss2sigma(mean, covar, alpha, beta, kappa) ==
    LET n == Rows(mean)
        alpha2 == RMul(alpha, alpha)
        c == RMul(alpha2, RAdd(<<n, 1>>, kappa))
        lambda == RSub(c, <<n, 1>>)
        L == Cholesky(Scale(c, covar))
        w0 == RMul(lambda, RInv(c))
        wi == RInv(RMul(<<2, 1>>, c))
    IN  IF L = <<>> THEN Raise("LinAlgError", <<Entry("gauss2sigma", <<>>)>>)
        ELSE Ok([sigma_points |->
                    [k \in 1..(2 * n + 1) |->
                        IF k = 1 THEN mean
                        ELSE IF k <= n + 1 THEN MatAdd(mean, Column(L, k - 1))
                        ELSE MatSub(mean, Column(L, k - n - 1))],
                 mean_weights |-> [k \in 1..(2 * n + 1) |-> IF k = 1 THEN w0 ELSE wi],
                 covar_weights |->
                    [k \in 1..(2 * n + 1) |->
                        IF k = 1 THEN RAdd(w0, RAdd(RSub(<<1, 1>>, alpha2), beta))
                        ELSE wi]],
                <<Entry("gauss2sigma", <<>>)>>)

\* unscented_transform(sigma_points, mean_weights, covar_weights, fun, covar_noise)
unscented_transform(sigma_points, mean_weights, covar_weights, m, covar_noise) ==
    LET np == Len(sigma_points)
        ys == [k \in 1..np |-> Function(m, sigma_points[k])]
        mean == SumSeq([k \in 1..np |-> Scale(mean_weights[k], ys[k])], np)
        covar ==
            MatAdd(SumSeq([k \in 1..np |->
                      Scale(covar_weights[k],
                            MatMul(MatSub(ys[k], mean), Transpose(MatSub(ys[k], mean))))],
                          np),
                   covar_noise)
        cross ==
            SumSeq([k \in 1..np |->
                      Scale(covar_weights[k],
                            MatMul(MatSub(sigma_points[k], sigma_points[1]),
                                   Transpose(MatSub(ys[k], mean))))], np)
    IN  [mean |-> mean, covar |-> covar, cross_covar |-> cross]

----------------------------------------------------------------------------
(* The three operations, each as the function of its arguments it is when it
   runs alone *)

\* KalmanUpdater.predict_measurement (inherited by ExtendedKalmanUpdater)
KalmanPredictMeasurement(self, predicted_state, measurement_model) ==
    LET m == ResolveModel(measurement_model, self.measurement_model)
        l58 == <<Entry("function", predicted_state.state_vector)>>
        hh == measurement_matrix(self, predicted_state, m)
    IN  IF m = NoModel THEN Raise("AttributeError", <<>>)
        ELSE IF hh.outcome # "ok" THEN Raise(hh.outcome, l58 \o hh.log)
        ELSE Ok(GaussianMeasurementPrediction(
                    Function(m, predicted_state.state_vector),
                    InnovationCovariance(hh.value, predicted_state.covar, Covar(m)),
                    predicted_state.timestamp,
                    CrossCovariance(hh.value, predicted_state.covar)),
                l58 \o hh.log \o <<Entry("matmul", <<>>), Entry("covar", <<>>)>>)

\* UnscentedKalmanUpdater.predict_measurement
UnscentedPredictMeasurement(self, predicted_state, measurement_model) ==
    LET m == ResolveModel(measurement_model, self.measurement_model)
        sp == gauss2sigma(predicted_state.state_vector, predicted_state.covar,
                          self.alpha, self.beta, self.kappa)
        ut == unscented_transform(sp.value.sigma_points, sp.value.mean_weights,
                                  sp.value.covar_weights, m, Covar(m))
    IN  IF sp.outcome # "ok" THEN sp
        ELSE IF m = NoModel THEN Raise("AttributeError", sp.log)
        ELSE Ok(GaussianMeasurementPrediction(ut.mean, ut.covar,
                    predicted_state.timestamp, ut.cross_covar),
                sp.log \o <<Entry("covar", <<>>), Entry("unscented_transform", <<>>)>>)

predict_measurement(self, predicted_state, measurement_model) ==
    IF self.variant = "UnscentedKalmanUpdater"
    THEN UnscentedPredictMeasurement(self, predicted_state, measurement_model)
    ELSE KalmanPredictMeasurement(self, predicted_state, measurement_model)

\* KalmanUpdater.update (inherited by both subclasses)
update(self, hypothesis) ==
    LET predicted_state == hypothesis.prediction
        measurement_model ==
            ResolveModel(hypothesis.measurement.measurement_model, self.measurement_model)
        gmp == predict_measurement(self, predicted_state, measurement_model)
        kalman_gain == KalmanGain(gmp.value.cross_covar, gmp.value.covar)
    IN  IF gmp.outcome # "ok" THEN Raise(gmp.outcome, gmp.log)
        ELSE IF IsSingular(gmp.value.covar)
        THEN Raise("LinAlgError", gmp.log \o <<Entry("inv", <<>>)>>)
        ELSE Ok(GaussianStateUpdate(
                    PosteriorMean(predicted_state.state_vector, kalman_gain,
                                  hypothesis.measurement.state_vector,
                                  gmp.value.state_vector),
                    PosteriorCovariance(predicted_state.covar, kalman_gain,
                                        gmp.value.covar),
                    hypothesis, hypothesis.measurement.timestamp),
                gmp.log \o <<Entry("inv", <<>>), Entry("matmul", <<>>)>>)

----------------------------------------------------------------------------
(* Frames *)
Threads == DOMAIN pc

NoCall ==
    [op |-> "none", hypothesis |-> NoHypothesis, predicted_state |-> NoState,
     measurement_model |-> NoModel]
NoLocals ==
    [predicted_state |-> NoState, measurement_model |-> NoModel, pm_model |-> NoModel,
     pred_meas |-> <<>>, hh |-> <<>>, sigma |-> <<>>, gmp |-> NoPrediction,
     kalman_gain |-> <<>>]
NoReturn == [outcome |-> "none", value |-> <<>>]

Finished(t) == pc[t] \in {"returned", "raised"}

\* the frame t returns v / raises e, having performed the operations l
Returns(t, v, l) ==
    /\ pc' = [pc EXCEPT ![t] = "returned"]
    /\ ret' = [ret EXCEPT ![t] = [outcome |-> "ok", value |-> v]]
    /\ log' = [log EXCEPT ![t] = @ \o l]
Raises(t, e, l) ==
    /\ pc' = [pc EXCEPT ![t] = "raised"]
    /\ ret' = [ret EXCEPT ![t] = [outcome |-> e, value |-> <<>>]]
    /\ log' = [log EXCEPT ![t] = @ \o l]
Goes(t, to, l) ==
    /\ pc' = [pc EXCEPT ![t] = to]
    /\ ret' = ret
    /\ log' = [log EXCEPT ![t] = @ \o l]

InitFrames(n) ==
    /\ pc = [t \in 1..n |-> "idle"]
    /\ call = [t \in 1..n |-> NoCall]
    /\ loc = [t \in 1..n |-> NoLocals]
    /\ ret = [t \in 1..n |-> NoReturn]
    /\ log = [t \in 1..n |-> <<>>]
    /\ nfailed = 0

\* one caller, any updater
Init ==
    /\ ndim_state \in Dims
    /\ updater \in Updaters(ndim_state)
    /\ InitFrames(1)

----------------------------------------------------------------------------
(* Calls *)
CallUpdate(t, hypothesis) ==
    /\ pc[t] = "idle"
    /\ call' = [call EXCEPT ![t] = [NoCall EXCEPT !.op = "update",
                                                  !.hypothesis = hypothesis]]
    /\ loc' = [loc EXCEPT ![t] = NoLocals]
    /\ Goes(t, "update_77", <<>>)
    /\ UNCHANGED <<updater, nfailed, ndim_state>>

CallPredictMeasurement(t, predicted_state, measurement_model) ==
    /\ pc[t] = "idle"
    /\ call' = [call EXCEPT ![t] = [NoCall EXCEPT !.op = "predict_measurement",
                                                  !.predicted_state = predicted_state,
                                                  !.measurement_model = measurement_model]]
    /\ loc' = [loc EXCEPT ![t] = [NoLocals EXCEPT !.predicted_state = predicted_state,
                                                  !.pm_model = measurement_model]]
    /\ Goes(t, "predict_55", <<>>)
    /\ UNCHANGED <<updater, nfailed, ndim_state>>

CallMeasurementMatrix(t, predicted_state, measurement_model) ==
    /\ pc[t] = "idle"
    /\ call' = [call EXCEPT ![t] = [NoCall EXCEPT !.op = "measurement_matrix",
                                                  !.predicted_state = predicted_state,
                                                  !.measurement_model = measurement_model]]
    /\ loc' = [loc EXCEPT ![t] = [NoLocals EXCEPT !.predicted_state = predicted_state,
                                                  !.pm_model = measurement_model]]
    /\ Goes(t, "matrix", <<>>)
    /\ UNCHANGED <<updater, nfailed, ndim_state>>

----------------------------------------------------------------------------
(* lines 77-86 with the resolved model stored on the updater instead of in a
   local *)
UpdateResolveShared(t) ==
    /\ pc[t] = "update_77"
    /\ LET m == ResolveModel(call[t].hypothesis.measurement.measurement_model,
                             updater.measurement_model)
       IN  /\ loc' = [loc EXCEPT ![t].predicted_state = call[t].hypothesis.prediction,
                                 ![t].measurement_model = m,
                                 ![t].pm_model = m]
           /\ updater' = [updater EXCEPT !.measurement_model = m]
    /\ Goes(t, "predict_55", <<>>)
    /\ UNCHANGED <<call, nfailed, ndim_state>>

(* update, lines 77-86: the prediction and the model are read from the
   hypothesis and passed to predict_measurement *)
UpdateResolve(t) ==
    /\ pc[t] = "update_77"
    /\ LET m == ResolveModel(call[t].hypothesis.measurement.measurement_model,
                             updater.measurement_model)
       IN  loc' = [loc EXCEPT ![t].predicted_state = call[t].hypothesis.prediction,
                              ![t].measurement_model = m,
                              ![t].pm_model = m]
    /\ Goes(t, "predict_55", <<>>)
    /\ UNCHANGED <<updater, call, nfailed, ndim_state>>

(* predict_measurement, lines 55-56 (179-180 in UnscentedKalmanUpdater) *)
PredictResolve(t) ==
    /\ pc[t] = "predict_55"
    /\ loc' = [loc EXCEPT ![t].pm_model = ResolveModel(@, updater.measurement_model)]
    /\ Goes(t, IF updater.variant = "UnscentedKalmanUpdater"
               THEN "predict_182" ELSE "predict_58", <<>>)
    /\ UNCHANGED <<updater, call, nfailed, ndim_state>>

(* line 58: None has no attribute 'function' *)
PredictFunction(t) ==
    /\ pc[t] = "predict_58"
    /\ IF loc[t].pm_model = NoModel
       THEN Raises(t, "AttributeError", <<>>) /\ loc' = loc
       ELSE /\ loc' = [loc EXCEPT ![t].pred_meas =
                          Function(loc[t].pm_model, loc[t].predicted_state.state_vector)]
            /\ Goes(t, "matrix",
                    <<Entry("function", loc[t].predicted_state.state_vector)>>)
    /\ UNCHANGED <<updater, call, nfailed, ndim_state>>

(* line 60, or a call of measurement_matrix itself *)
MeasurementMatrix(t) ==
    /\ pc[t] = "matrix"
    /\ LET r == measurement_matrix(updater, loc[t].predicted_state, loc[t].pm_model)
       IN  IF r.outcome # "ok" THEN Raises(t, r.outcome, r.log) /\ loc' = loc
           ELSE IF call[t].op = "measurement_matrix"
           THEN Returns(t, r.value, r.log) /\ loc' = loc
           ELSE /\ loc' = [loc EXCEPT ![t].hh = r.value]
                /\ Goes(t, "predict_62", r.log)
    /\ UNCHANGED <<updater, call, nfailed, ndim_state>>

(* lines 62-66 *)
PredictCovariances(t) ==
    /\ pc[t] = "predict_62"
    /\ LET gmp == GaussianMeasurementPrediction(
                      loc[t].pred_meas,
                      InnovationCovariance(loc[t].hh, loc[t].predicted_state.covar,
                                           Covar(loc[t].pm_model)),
                      loc[t].predicted_state.timestamp,
                      CrossCovariance(loc[t].hh, loc[t].predicted_state.covar))
           l == <<Entry("matmul", <<>>), Entry("covar", <<>>)>>
       IN  IF call[t].op = "predict_measurement"
           THEN Returns(t, gmp, l) /\ loc' = loc
           ELSE loc' = [loc EXCEPT ![t].gmp = gmp] /\ Goes(t, "update_87", l)
    /\ UNCHANGED <<updater, call, nfailed, ndim_state>>

(* lines 182-183 *)
SigmaPoints(t) ==
    /\ pc[t] = "predict_182"
    /\ LET r == gauss2sigma(loc[t].predicted_state.state_vector,
                            loc[t].predicted_state.covar,
                            updater.alpha, updater.beta, updater.kappa)
       IN  IF r.outcome # "ok" THEN Raises(t, r.outcome, r.log) /\ loc' = loc
           ELSE loc' = [loc EXCEPT ![t].sigma = r.value] /\ Goes(t, "predict_185", r.log)
    /\ UNCHANGED <<updater, call, nfailed, ndim_state>>

(* lines 185-189 *)
UnscentedTransform(t) ==
    /\ pc[t] = "predict_185"
    /\ IF loc[t].pm_model = NoModel
       THEN Raises(t, "AttributeError", <<>>) /\ loc' = loc
       ELSE LET ut == unscented_transform(loc[t].sigma.sigma_points,
                          loc[t].sigma.mean_weights, loc[t].sigma.covar_weights,
                          loc[t].pm_model, Covar(loc[t].pm_model))
                gmp == GaussianMeasurementPrediction(ut.mean, ut.covar,
                          loc[t].predicted_state.timestamp, ut.cross_covar)
                l == <<Entry("covar", <<>>), Entry("unscented_transform", <<>>)>>
            IN  IF call[t].op = "predict_measurement"
                THEN Returns(t, gmp, l) /\ loc' = loc
                ELSE loc' = [loc EXCEPT ![t].gmp = gmp] /\ Goes(t, "update_87", l)
    /\ UNCHANGED <<updater, call, nfailed, ndim_state>>

(* lines 87-92 with np.linalg.pinv, which returns 0 for a singular 1 x 1 matrix,
   in place of np.linalg.inv *)
UpdateGainPinv(t) ==
    /\ pc[t] = "update_87"
    /\ loc' = [loc EXCEPT ![t].kalman_gain =
                  IF IsSingular(loc[t].gmp.covar)
                  THEN ZeroMat(Rows(loc[t].gmp.cross_covar), Cols(loc[t].gmp.cross_covar))
                  ELSE KalmanGain(loc[t].gmp.cross_covar, loc[t].gmp.covar)]
    /\ Goes(t, "update_93", <<Entry("inv", <<>>)>>)
    /\ UNCHANGED <<updater, call, nfailed, ndim_state>>

(* lines 87-92: np.linalg.inv raises LinAlgError on a singular innov_cov *)
UpdateGain(t) ==
    /\ pc[t] = "update_87"
    /\ IF IsSingular(loc[t].gmp.covar)
       THEN Raises(t, "LinAlgError", <<Entry("inv", <<>>)>>) /\ loc' = loc
       ELSE /\ loc' = [loc EXCEPT ![t].kalman_gain =
                          KalmanGain(loc[t].gmp.cross_covar, loc[t].gmp.covar)]
            /\ Goes(t, "update_93", <<Entry("inv", <<>>)>>)
    /\ UNCHANGED <<updater, call, nfailed, ndim_state>>

(* lines 93-98 with the posterior mean accumulated in place
   (predicted_state.state_vector += ...), which writes into the hypothesis *)
UpdatePosteriorInPlace(t) ==
    /\ pc[t] = "update_93"
    /\ LET mean == PosteriorMean(loc[t].predicted_state.state_vector,
                                 loc[t].kalman_gain,
                                 call[t].hypothesis.measurement.state_vector,
                                 loc[t].gmp.state_vector)
       IN  /\ call' = [call EXCEPT ![t].hypothesis.prediction.state_vector = mean]
           /\ Returns(t, GaussianStateUpdate(
                             mean,
                             PosteriorCovariance(loc[t].predicted_state.covar,
                                                 loc[t].kalman_gain, loc[t].gmp.covar),
                             call'[t].hypothesis,
                             call[t].hypothesis.measurement.timestamp),
                      <<Entry("matmul", <<>>)>>)
    /\ UNCHANGED <<updater, loc, nfailed, ndim_state>>

(* lines 93-98 *)
UpdatePosterior(t) ==
    /\ pc[t] = "update_93"
    /\ Returns(t, GaussianStateUpdate(
                      PosteriorMean(loc[t].predicted_state.state_vector,
                                    loc[t].kalman_gain,
                                    call[t].hypothesis.measurement.state_vector,
                                    loc[t].gmp.state_vector),
                      PosteriorCovariance(loc[t].predicted_state.covar,
                                          loc[t].kalman_gain, loc[t].gmp.covar),
                      call[t].hypothesis,
                      call[t].hypothesis.measurement.timestamp),
               <<Entry("matmul", <<>>)>>)
    /\ UNCHANGED <<updater, call, loc, nfailed, ndim_state>>

(* the caller takes the outcome; the frame is gone *)
Return(t) ==
    /\ Finished(t)
    /\ pc' = [pc EXCEPT ![t] = "idle"]
    /\ call' = [call EXCEPT ![t] = NoCall]
    /\ loc' = [loc EXCEPT ![t] = NoLocals]
    /\ ret' = [ret EXCEPT ![t] = NoReturn]
    /\ log' = [log EXCEPT ![t] = <<>>]
    /\ nfailed' = IF pc[t] = "raised" /\ nfailed < MaxFailed THEN nfailed + 1 ELSE nfailed
    /\ UNCHANGED <<updater, ndim_state>>

Next ==
    \/ \E t \in Threads : \E h \in Hypotheses(ndim_state) : CallUpdate(t, h)
    \/ \E t \in Threads :
          \E s \in States(ndim_state), m \in Models(ndim_state) \cup {NoModel} :
              CallPredictMeasurement(t, s, m)
    \/ \E t \in Threads :
          \E s \in States(ndim_state), m \in Models(ndim_state) \cup {NoModel} :
              CallMeasurementMatrix(t, s, m)
    \/ \E t \in Threads : UpdateResolve(t)
    \/ \E t \in Threads : PredictResolve(t)
    \/ \E t \in Threads : PredictFunction(t)
    \/ \E t \in Threads : MeasurementMatrix(t)
    \/ \E t \in Threads : PredictCovariances(t)
    \/ \E t \in Threads : SigmaPoints(t)
    \/ \E t \in Threads : UnscentedTransform(t)
    \/ \E t \in Threads : UpdateGain(t)
    \/ \E t \in Threads : UpdatePosterior(t)
    \/ \E t \in Threads : Return(t)

Spec == Init /\ [][Next]_vars

----------------------------------------------------------------------------
(* Several update() calls at once on one updater, their statements interleaved
   in any order.  Each thread makes one call. *)
ConcModels ==
    {NoModel, LinearGaussian(<<<<1, 0>>>>, <<<<1>>>>), LinearGaussian(<<<<0, 1>>>>, <<<<0>>>>)}
ConcDefaults == {NoModel, LinearGaussian(<<<<1, 0>>>>, <<<<1>>>>)}
ConcState ==
    [state_vector |-> IntMat(<<<<1>>, <<2>>>>),
     covar |-> IntMat(<<<<2, 2>>, <<2, 4>>>>), timestamp |-> PredictionTime]
ConcHypotheses ==
    {[prediction |-> ConcState,
      measurement |-> [state_vector |-> IntMat(<<<<MaxMeas>>>>),
                       timestamp |-> MeasurementTime, measurement_model |-> m]] :
        m \in ConcModels}

InitConc ==
    /\ ndim_state = Rows(ConcState.state_vector)
    /\ updater \in {u \in Updaters(ndim_state) : u.measurement_model \in ConcDefaults}
    /\ InitFrames(NumThreads)

NextConc ==
    \/ \E t \in Threads : \E h \in ConcHypotheses : CallUpdate(t, h)
    \/ \E t \in Threads : UpdateResolve(t)
    \/ \E t \in Threads : PredictResolve(t)
    \/ \E t \in Threads : PredictFunction(t)
    \/ \E t \in Threads : MeasurementMatrix(t)
    \/ \E t \in Threads : PredictCovariances(t)
    \/ \E t \in Threads : SigmaPoints(t)
    \/ \E t \in Threads : UnscentedTransform(t)
    \/ \E t \in Threads : UpdateGain(t)
    \/ \E t \in Threads : UpdatePosterior(t)

SpecConc == InitConc /\ [][NextConc]_vars

----------------------------------------------------------------------------
(* What a finished frame is compared with: the operation as a function of the
   updater and of the caller's arguments *)
Reference(self, c) ==
    IF c.op = "update" THEN update(self, c.hypothesis)
    ELSE IF c.op = "predict_measurement"
    THEN predict_measurement(self, c.predicted_state, c.measurement_model)
    ELSE measurement_matrix(self, c.predicted_state, c.measurement_model)

Outcome(r) == [outcome |-> r.outcome, value |-> r.value]

\* the statements of a frame compose to the operation
StepwiseIsReference ==
    \A t \in Threads :
        Finished(t) =>
            /\ ret[t] = Outcome(Reference(updater, call[t]))
            /\ log[t] = Reference(updater, call[t]).log

----------------------------------------------------------------------------
(* Properties *)
IsUpdate(t) == call[t].op = "update"
HypothesisModel(t) == call[t].hypothesis.measurement.measurement_model
WithModel(self, m) == [self EXCEPT !.measurement_model = m]
IsJacobian(e) == e.op = "jacobian"
PositiveDefinite(A) ==
    /\ A[1][1][1] > 0
    /\ Rows(A) = 1 \/ Det(A)[1] > 0

\* C1: when the hypothesis's measurement carries a model M_h and the updater a
\* different default M_d, update uses M_h for everything: the outcome is the one
\* of an updater whose only model is M_h.
C1_HypothesisModelWins ==
    \A t \in Threads :
        ( /\ Finished(t) /\ IsUpdate(t)
          /\ HypothesisModel(t) # NoModel
          /\ updater.measurement_model # NoModel
          /\ updater.measurement_model # HypothesisModel(t) )
        => ret[t] = Outcome(update(WithModel(updater, HypothesisModel(t)),
                                   call[t].hypothesis))

\* C2: with no model on the measurement and none on the updater, update (and
\* predict_measurement without a model argument) ends in ConfigurationError
\* before any model call or matrix operation.
C2_MissingModelFailsFast ==
    \A t \in Threads :
        ( /\ Finished(t)
          /\ updater.measurement_model = NoModel
          /\ \/ IsUpdate(t) /\ HypothesisModel(t) = NoModel
             \/ call[t].op = "predict_measurement" /\ call[t].measurement_model = NoModel )
        => /\ pc[t] = "raised"
           /\ ret[t].outcome = "ConfigurationError"
           /\ log[t] = <<>>

\* C3: on a hypothesis whose resolved model is linear, KalmanUpdater.update and
\* ExtendedKalmanUpdater.update have the same outcome, wherever the model is
\* supplied.
C3_KalmanEqualsExtendedOnLinear ==
    \A t \in Threads :
        ( /\ Finished(t) /\ IsUpdate(t)
          /\ updater.variant = "KalmanUpdater"
          /\ HasMatrix(ResolveModel(HypothesisModel(t), updater.measurement_model)) )
        => ret[t] = Outcome(update([updater EXCEPT !.variant = "ExtendedKalmanUpdater"],
                                   call[t].hypothesis))

\* C4: KalmanUpdater.predict_measurement and measurement_matrix called with an
\* explicit linear model use that model throughout: mean = function(x), H its
\* matrix, S = H P H^T + covar(), cross-covariance = P H^T.
C4_PredictUsesExplicitModel ==
    \A t \in Threads :
        ( /\ Finished(t)
          /\ updater.variant = "KalmanUpdater"
          /\ call[t].op \in {"predict_measurement", "measurement_matrix"}
          /\ HasMatrix(call[t].measurement_model) )
        => LET m == call[t].measurement_model
               x == call[t].predicted_state.state_vector
               P == call[t].predicted_state.covar
               H == Matrix(m)
           IN  /\ pc[t] = "returned"
               /\ call[t].op = "measurement_matrix" => ret[t].value = H
               /\ call[t].op = "predict_measurement" =>
                    ret[t].value =
                        GaussianMeasurementPrediction(
                            Function(m, x),
                            MatAdd(MatMul(MatMul(H, P), Transpose(H)), Covar(m)),
                            call[t].predicted_state.timestamp,
                            MatMul(P, Transpose(H)))

\* the innovation covariance update got from predict_measurement is singular
SingularInnovation(t) ==
    /\ IsUpdate(t)
    /\ loc[t].gmp # NoPrediction
    /\ IsSingular(loc[t].gmp.covar)

\* C5 as stated: a singular innovation covariance ends update in
\* SingularMatrixError.
C5_SingularRaisesSingularMatrixError ==
    \A t \in Threads :
        (Finished(t) /\ SingularInnovation(t)) => ret[t].outcome = "SingularMatrixError"

\* C5 as amended: a singular innovation covariance ends update in numpy's
\* LinAlgError, without a posterior; no GaussianStateUpdate is ever computed
\* from a singular innovation covariance.
C5_SingularInnovationRaises ==
    \A t \in Threads :
        (pc[t] \in {"update_93", "returned", "raised"} /\ SingularInnovation(t))
        => /\ pc[t] = "raised"
           /\ ret[t] = [outcome |-> "LinAlgError", value |-> <<>>]

C5_Witness ==
    \E t \in Threads :
        /\ pc[t] = "raised" /\ SingularInnovation(t)
        /\ ret[t].outcome = "LinAlgError"
        /\ loc[t].predicted_state.covar # ZeroMat(ndim_state, ndim_state)

\* the 1-D scenario: mean 0, P = 1, z = 2 and the model H = 1, R = 1
ScenarioModel == LinearGaussian(<<<<1>>>>, <<<<1>>>>)
Scenario(t) ==
    /\ IsUpdate(t)
    /\ call[t].hypothesis.prediction.state_vector = IntMat(<<<<0>>>>)
    /\ call[t].hypothesis.prediction.covar = IntMat(<<<<1>>>>)
    /\ call[t].hypothesis.measurement.state_vector = IntMat(<<<<2>>>>)
    /\ HypothesisModel(t) \in {NoModel, ScenarioModel}

\* C6: a successful update returns mean x + K (z - zhat) and covariance
\* P - K S K^T with K = Pxz S^-1, where (zhat, S, Pxz) is what
\* predict_measurement returned; in the 1-D scenario S = 2, K = 1/2, the
\* posterior mean is 1 and the posterior covariance 1/2.
C6_PosteriorEquations ==
    \A t \in Threads :
        /\ (pc[t] = "returned" /\ IsUpdate(t)) =>
            LET h == call[t].hypothesis
                g == loc[t].gmp
                K == MatMul(g.cross_covar, Inverse(g.covar))
            IN  /\ ~IsSingular(g.covar)
                /\ g =
                     predict_measurement(updater, h.prediction,
                        ResolveModel(HypothesisModel(t), updater.measurement_model)).value
                /\ ret[t].value.state_vector =
                     MatAdd(h.prediction.state_vector,
                            MatMul(K, MatSub(h.measurement.state_vector, g.state_vector)))
                /\ ret[t].value.covar =
                     MatSub(h.prediction.covar, MatMul(MatMul(K, g.covar), Transpose(K)))
                /\ ret[t].value.timestamp = h.measurement.timestamp
                /\ ret[t].value.hypothesis = h
        /\ (Finished(t) /\ Scenario(t) /\ updater.measurement_model = ScenarioModel) =>
                /\ pc[t] = "returned"
                /\ loc[t].gmp.covar = IntMat(<<<<2>>>>)
                /\ loc[t].kalman_gain = <<<<Rat(1, 2)>>>>
                /\ ret[t].value.state_vector = IntMat(<<<<1>>>>)
                /\ ret[t].value.covar = <<<<Rat(1, 2)>>>>

C6_Witness ==
    \E t \in Threads :
        /\ pc[t] = "returned" /\ Scenario(t)
        /\ updater.variant = "KalmanUpdater"
        /\ updater.measurement_model = ScenarioModel
        /\ ret[t].value.covar = <<<<Rat(1, 2)>>>>

\* C7: after a successful update with positive-definite innovation covariance
\* the trace of the posterior covariance is at most the trace of the predicted
\* covariance.
C7_TraceContracts ==
    \A t \in Threads :
        (pc[t] = "returned" /\ IsUpdate(t) /\ PositiveDefinite(loc[t].gmp.covar))
        => RLeq(Trace(ret[t].value.covar), Trace(call[t].hypothesis.prediction.covar))

C7_Witness ==
    \E t \in Threads :
        /\ pc[t] = "returned" /\ IsUpdate(t) /\ PositiveDefinite(loc[t].gmp.covar)
        /\ HypothesisModel(t) # NoModel
        /\ updater.measurement_model # NoModel
        /\ updater.measurement_model # HypothesisModel(t)
        /\ Rows(call[t].hypothesis.prediction.covar) > 1
        /\ Trace(ret[t].value.covar) # Trace(call[t].hypothesis.prediction.covar)

\* C8: no statement of update, predict_measurement or measurement_matrix, of
\* any variant, returning or raising, changes the updater's fields or the
\* caller's arguments; the outcome of a call is the function of the updater and
\* the arguments, whatever calls failed before it.
C8_CallsLeaveInputsUnchanged ==
    [][ /\ updater' = updater
        /\ \A t \in Threads :
            /\ (pc[t] # "idle" /\ pc'[t] # "idle") => call'[t] = call[t]
            /\ pc'[t] \in {"returned", "raised"} =>
                 ret'[t] = Outcome(Reference(updater', call'[t])) ]_vars

C8_Witness ==
    \E t \in Threads :
        /\ nfailed > 0
        /\ pc[t] = "returned" /\ IsUpdate(t)
        /\ updater.variant = "UnscentedKalmanUpdater"

\* C9: update calls whose statements interleave on one updater each return
\* what they return alone, and each works with the model resolved from its own
\* hypothesis.
C9_ConcurrentCallsAreIsolated ==
    \A t \in Threads :
        /\ Finished(t) =>
             /\ ret[t] = Outcome(update(updater, call[t].hypothesis))
             /\ log[t] = update(updater, call[t].hypothesis).log
        /\ pc[t] \notin {"idle", "update_77"} =>
             /\ loc[t].measurement_model =
                  ResolveModel(HypothesisModel(t), updater.measurement_model)
             /\ loc[t].pm_model = loc[t].measurement_model
             /\ loc[t].predicted_state = call[t].hypothesis.prediction

C9_Witness ==
    \E t1, t2 \in Threads :
        /\ pc[t1] = "returned" /\ pc[t2] = "returned"
        /\ HypothesisModel(t1) # NoModel /\ HypothesisModel(t2) # NoModel
        /\ HypothesisModel(t1) # HypothesisModel(t2)
        /\ ret[t1].value.state_vector # ret[t2].value.state_vector

\* C10: ExtendedKalmanUpdater.measurement_matrix resolves the model (argument,
\* else default), returns its fixed matrix when it has one and otherwise its
\* Jacobian at the predicted mean; the Jacobian is never evaluated for a model
\* with a matrix, nor at any other point.
C10_ExtendedMatrixOrJacobian ==
    \A t \in Threads :
        (Finished(t) /\ updater.variant = "ExtendedKalmanUpdater"
                     /\ call[t].op = "measurement_matrix")
        => LET m == ResolveModel(call[t].measurement_model, updater.measurement_model)
               x == call[t].predicted_state.state_vector
               jacobians == SelectSeq(log[t], IsJacobian)
           IN  /\ HasMatrix(m) =>
                    ret[t] = [outcome |-> "ok", value |-> Matrix(m)] /\ jacobians = <<>>
               /\ m.kind = "nonlinear" =>
                    /\ ret[t] = [outcome |-> "ok", value |-> Jacobian(m, x)]
                    /\ jacobians = <<Entry("jacobian", x)>>
               /\ m = NoModel => pc[t] = "raised"

C10_Witness ==
    \E t \in Threads :
        /\ pc[t] = "returned" /\ updater.variant = "ExtendedKalmanUpdater"
        /\ call[t].op = "measurement_matrix"
        /\ call[t].measurement_model = NoModel
        /\ ~HasMatrix(updater.measurement_model)
        /\ ret[t].value # ZeroMat(1, ndim_state)

====
